---- MODULE Spec2Model ----
(***************************************************************************)
(* Model of src/main.py (PDF translation script): main() reads the         *)
(* configuration, asks for a PDF path and two languages, extracts the      *)
(* text of every page, translates the pages one after the other through    *)
(* translate_text_via_api() and hands the records to                       *)
(* create_translation_document().                                          *)
(*                                                                         *)
(* Python strings are sequences of tokens; the token " " is whitespace,    *)
(* every other token is a non-whitespace piece of text.  Python's None for *)
(* a configuration value is the string "None".                             *)
(***************************************************************************)
EXTENDS Integers, Sequences, FiniteSets, TLC

\* Largest number of pages the text source returns.
MaxPages == 2

VARIABLES
    pc,                   \* position of main()
    status,               \* how main() ended ("running" until it does)
    cfg,                  \* the config.ini found on disk
    api_url, api_model,   \* main: values returned by read_api_config
    prompt_template,      \* main: template returned by read_api_config
    pdf_path,             \* main: the entered path
    source_language, target_language,
    extracted,            \* TRUE once extract_text_from_pdf returned a list
    page_texts,           \* main: the list of page texts
    i,                    \* main: 1-based index of the page the loop is at
    translated_page_data, \* main: the records built so far
    requests,             \* the requests the backend has received, in order
    inflight,             \* requests sent and not yet answered
    page_outcome,         \* per processed page: what happened to it
    calls,                \* per processed page: number of backend calls
    doc_invoked,          \* TRUE once create_translation_document is called
    requests_at_doc,      \* Len(requests) when document generation started
    fs,                   \* what the file system did to the document sink
    document              \* the records written to the saved .docx

vars == <<pc, status, cfg, api_url, api_model, prompt_template, pdf_path,
          source_language, target_language, extracted, page_texts, i,
          translated_page_data, requests, inflight, page_outcome, calls,
          doc_invoked, requests_at_doc, fs, document>>

----------------------------------------------------------------------------
(* Strings *)

RECURSIVE LStrip(_)
LStrip(s) == IF s # <<>> /\ Head(s) = " " THEN LStrip(Tail(s)) ELSE s

RECURSIVE RStrip(_)
RStrip(s) ==
    IF s # <<>> /\ s[Len(s)] = " " THEN RStrip(SubSeq(s, 1, Len(s) - 1)) ELSE s

\* str.strip()
Strip(s) == RStrip(LStrip(s))

\* Python truthiness of a configuration value (None and "" are falsy)
Falsy(v) == v \in {"None", ""}

\* str.lower() on the file extensions the model enters
Lower(ext) == IF ext = "PDF" THEN "pdf" ELSE ext

----------------------------------------------------------------------------
(* Configuration *)

DEFAULT_PROMPT_TEMPLATE ==
    <<"lit", "source_language", "lit", "target_language", "lit",
      "text_to_translate">>

\* A template is the sequence of its parts: "lit" is literal text, a field
\* name is a replacement field {name}, "positional" is {} and "text_index"
\* is {text_to_translate[1]}.
Templates ==
    { <<>>,                                          \* empty: default is used
      <<"lit">>,                                     \* no placeholder at all
      <<"lit", "text_to_translate">>,
      <<"lit", "context", "text_to_translate">>,     \* unknown placeholder
      <<"positional", "text_to_translate">>,         \* "{} ..."
      <<"text_index", "text_to_translate">> }        \* indexes into the text

ConfigFiles ==
    { [exists |-> FALSE, readable |-> TRUE, hasAPI |-> FALSE,
       url |-> "None", model |-> "None", template |-> <<>>],
      [exists |-> TRUE, readable |-> FALSE, hasAPI |-> TRUE,
       url |-> "http://api", model |-> "m", template |-> <<>>],
      [exists |-> TRUE, readable |-> TRUE, hasAPI |-> FALSE,
       url |-> "http://api", model |-> "m", template |-> <<>>],
      [exists |-> TRUE, readable |-> TRUE, hasAPI |-> TRUE,
       url |-> "None", model |-> "m", template |-> <<>>],
      [exists |-> TRUE, readable |-> TRUE, hasAPI |-> TRUE,
       url |-> "http://api", model |-> "", template |-> <<>>] }
    \cup
    { [exists |-> TRUE, readable |-> TRUE, hasAPI |-> TRUE,
       url |-> "http://api", model |-> "m", template |-> t] : t \in Templates }

\* read_api_config: <<api_url, api_model, prompt_template>>
read_api_config(c) ==
    IF ~c.exists THEN <<"None", "None", DEFAULT_PROMPT_TEMPLATE>>
    ELSE IF ~c.readable THEN <<"None", "None", DEFAULT_PROMPT_TEMPLATE>>
    ELSE IF ~c.hasAPI THEN <<"None", "None", DEFAULT_PROMPT_TEMPLATE>>
    ELSE <<c.url, c.model,
           IF c.template # <<>> THEN c.template ELSE DEFAULT_PROMPT_TEMPLATE>>

----------------------------------------------------------------------------
(* Inputs *)

\* What the operator types at the path prompt, and whether the file exists.
Paths ==
    { [ext |-> "pdf", exists |-> TRUE],
      [ext |-> "PDF", exists |-> TRUE],
      [ext |-> "txt", exists |-> TRUE],
      [ext |-> "pdf", exists |-> FALSE] }

SourceInputs == { <<>>, <<" ", "German">> }
TargetInputs == { <<>>, <<"French", " ">> }

\* Texts a page can have: none, whitespace only, and two different texts.
PageTexts == { <<>>, <<" ">>, <<"a">>, <<" ", "b", " ">> }

PageLists == UNION { [1..n -> PageTexts] : n \in 0..MaxPages }

\* What the backend can do with one request.
Responses ==
    { [kind |-> k, content |-> <<>>] :
        k \in {"Timeout", "ConnectionError", "HTTPError", "InvalidJSON",
               "NoContent"} }
    \cup
    { [kind |-> "Content", content |-> c] : c \in { <<" ", "x", " ">>, <<" ">> } }

\* What the file system can do with the output folder and the .docx file.
FsOutcomes == {"saved", "mkdir_failed", "save_failed"}

----------------------------------------------------------------------------
(* translate_text_via_api *)

\* KwArgs, had the call also supplied a context placeholder
KwArgs_WithContext(src, tgt, text) ==
    [f \in {"source_language", "target_language", "text_to_translate",
            "context"} |->
        CASE f = "source_language" -> src
          [] f = "target_language" -> tgt
          [] f = "context" -> <<"No previous context">>
          [] OTHER -> text]

\* The keyword arguments handed to prompt_template.format
KwArgs(src, tgt, text) ==
    [f \in {"source_language", "target_language", "text_to_translate"} |->
        CASE f = "source_language" -> src
          [] f = "target_language" -> tgt
          [] OTHER -> text]

\* One part of the template, substituted: the exception it raises, if any,
\* and the text it produces.
FormatPart(part, kw) ==
    CASE part = "lit" -> [exc |-> "none", value |-> <<"lit">>]
      [] part \in DOMAIN kw -> [exc |-> "none", value |-> kw[part]]
      [] part = "positional" -> [exc |-> "IndexError", value |-> <<>>]
      [] part = "text_index" ->
            IF Len(kw["text_to_translate"]) > 1
            THEN [exc |-> "none", value |-> <<kw["text_to_translate"][2]>>]
            ELSE [exc |-> "IndexError", value |-> <<>>]
      [] OTHER -> [exc |-> "KeyError", value |-> <<>>]

\* str.format: the parts are substituted from left to right and the first
\* one that fails raises.
RECURSIVE FormatParts(_, _)
FormatParts(parts, kw) ==
    IF parts = <<>> THEN [exc |-> "none", prompt |-> <<>>]
    ELSE LET one == FormatPart(Head(parts), kw)
             rest == FormatParts(Tail(parts), kw)
         IN  IF one.exc # "none" THEN [exc |-> one.exc, prompt |-> <<>>]
             ELSE IF rest.exc # "none" THEN rest
             ELSE [exc |-> "none",
                   prompt |-> <<[field |-> Head(parts), value |-> one.value]>>
                              \o rest.prompt]

FormatPrompt(template, src, tgt, text) ==
    FormatParts(template, KwArgs(src, tgt, text))

\* PrepareRequest, had the blank test compared the text with its stripped form
PrepareRequest_SkipPadded(text, model_name, tgt, src, template) ==
    IF Strip(text) # text THEN [kind |-> "return", value |-> <<>>]
    ELSE LET f == FormatPrompt(template, src, tgt, text)
         IN  CASE f.exc = "none" ->
                    [kind |-> "post",
                     value |-> [model |-> model_name, prompt |-> f.prompt]]
               [] f.exc = "KeyError" ->
                    [kind |-> "return",
                     value |-> <<"Error: Invalid prompt template">>]
               [] OTHER -> [kind |-> "raise", value |-> <<f.exc>>]

\* The part of translate_text_via_api that runs before the request is sent:
\* it returns a value, raises, or posts a payload.
PrepareRequest(text, model_name, tgt, src, template) ==
    IF Strip(text) = <<>> THEN [kind |-> "return", value |-> <<>>]
    ELSE LET f == FormatPrompt(template, src, tgt, text)
         IN  CASE f.exc = "none" ->
                    [kind |-> "post",
                     value |-> [model |-> model_name, prompt |-> f.prompt]]
               [] f.exc = "KeyError" ->
                    [kind |-> "return",
                     value |-> <<"Error: Invalid prompt template">>]
               [] OTHER -> [kind |-> "raise", value |-> <<f.exc>>]

\* ApiResult, had every failure been reported by the generic handler
ApiResult_OneHandler(resp) ==
    CASE resp.kind = "Content" -> Strip(resp.content)
      [] OTHER -> <<"Translation error: ", resp.kind>>

\* The part of translate_text_via_api that runs on the backend's answer.
ApiResult(resp) ==
    CASE resp.kind = "Content" -> Strip(resp.content)
      [] resp.kind = "NoContent" -> <<"Error processing API response">>
      [] resp.kind = "Timeout" -> <<"Translation error: ", "Timeout">>
      [] OTHER -> <<"Translation error: ", resp.kind>>

----------------------------------------------------------------------------
(* main *)

\* ConfigMissing, had the guard required both values to be missing
ConfigMissing_Both(url, model) == Falsy(url) /\ Falsy(model)

\* line 272
ConfigMissing(url, model) == Falsy(url) \/ Falsy(model)

\* line 286
IsPdfPath(p) == Lower(p.ext) = "pdf"

\* HasText, had the guard only looked for pages
HasText_AnyPage(pts) == Len(pts) > 0

\* line 319
HasText(pts) == \E k \in 1..Len(pts) : pts[k] # <<>> /\ Strip(pts[k]) # <<>>

\* IsBlankPage, had the loop not stripped the text
IsBlankPage_NoStrip(text) == text = <<>>

\* line 331
IsBlankPage(text) == text = <<>> \/ Strip(text) = <<>>

\* LoopFinished, had the loop stopped one page early
LoopFinished_Early(k, pts) == k >= Len(pts)

\* the page loop has gone through every page
LoopFinished(k, pts) == k > Len(pts)

\* what happened to a page that got no answer from the backend
Outcome(k) == [kind |-> k, content |-> <<>>]

Record(orig, trans) == [original |-> orig, translated |-> trans]

Init ==
    /\ pc = "config"
    /\ status = "running"
    /\ cfg \in ConfigFiles
    /\ api_url = "None"
    /\ api_model = "None"
    /\ prompt_template = <<>>
    /\ pdf_path = [ext |-> "", exists |-> FALSE]
    /\ source_language = <<>>
    /\ target_language = <<>>
    /\ extracted = FALSE
    /\ page_texts = <<>>
    /\ i = 1
    /\ translated_page_data = <<>>
    /\ requests = <<>>
    /\ inflight = {}
    /\ page_outcome = <<>>
    /\ calls = <<>>
    /\ doc_invoked = FALSE
    /\ requests_at_doc = 0
    /\ fs = "untouched"
    /\ document = <<>>

\* lines 270-282
ReadConfig ==
    /\ pc = "config"
    /\ LET r == read_api_config(cfg)
       IN  /\ api_url' = r[1]
           /\ api_model' = r[2]
           /\ prompt_template' = r[3]
           /\ IF ConfigMissing(r[1], r[2])
              THEN pc' = "done" /\ status' = "no_config"
              ELSE pc' = "ask_path" /\ status' = status
    /\ UNCHANGED <<cfg, pdf_path, source_language, target_language, extracted,
                   page_texts, i, translated_page_data, requests, inflight,
                   page_outcome, calls, doc_invoked, requests_at_doc, fs,
                   document>>

\* lines 285-294
EnterPath ==
    /\ pc = "ask_path"
    /\ \E p \in Paths :
        /\ pdf_path' = p
        /\ IF ~IsPdfPath(p) THEN pc' = "done" /\ status' = "not_pdf"
           ELSE IF ~p.exists THEN pc' = "done" /\ status' = "not_found"
           ELSE pc' = "ask_lang" /\ status' = status
    /\ UNCHANGED <<cfg, api_url, api_model, prompt_template, source_language,
                   target_language, extracted, page_texts, i,
                   translated_page_data, requests, inflight, page_outcome,
                   calls, doc_invoked, requests_at_doc, fs, document>>

\* lines 296-309
EnterLanguages ==
    /\ pc = "ask_lang"
    /\ \E s \in SourceInputs, t \in TargetInputs :
        /\ source_language' = IF Strip(s) = <<>> THEN <<"English">> ELSE Strip(s)
        /\ target_language' = IF Strip(t) = <<>> THEN <<"Farsi">> ELSE Strip(t)
    /\ pc' = "extract"
    /\ UNCHANGED <<status, cfg, api_url, api_model, prompt_template, pdf_path,
                   extracted, page_texts, i, translated_page_data, requests,
                   inflight, page_outcome, calls, doc_invoked, requests_at_doc,
                   fs, document>>

\* lines 312-328: extract_text_from_pdf returns None or the list of texts
ExtractText ==
    /\ pc = "extract"
    /\ \/ /\ pc' = "done"
          /\ status' = "extract_failed"
          /\ UNCHANGED <<extracted, page_texts, calls>>
       \/ \E pts \in PageLists :
            /\ extracted' = TRUE
            /\ page_texts' = pts
            /\ calls' = [k \in 1..Len(pts) |-> 0]
            /\ IF ~HasText(pts) THEN pc' = "done" /\ status' = "no_text"
               ELSE pc' = "loop" /\ status' = status
    /\ UNCHANGED <<cfg, api_url, api_model, prompt_template, pdf_path,
                   source_language, target_language, i, translated_page_data,
                   requests, inflight, page_outcome, doc_invoked,
                   requests_at_doc, fs, document>>

\* TranslateBlankPage, had the blank branch continued without a record
TranslateBlankPage_NoRecord ==
    /\ pc = "loop"
    /\ ~LoopFinished(i, page_texts)
    /\ IsBlankPage(page_texts[i])
    /\ page_outcome' = Append(page_outcome, Outcome("blank"))
    /\ i' = i + 1
    /\ UNCHANGED <<pc, status, cfg, api_url, api_model, prompt_template,
                   pdf_path, source_language, target_language, extracted,
                   page_texts, translated_page_data, requests, inflight, calls,
                   doc_invoked, requests_at_doc, fs, document>>

\* lines 330-334: a blank page gets an empty record and no call
TranslateBlankPage ==
    /\ pc = "loop"
    /\ ~LoopFinished(i, page_texts)
    /\ IsBlankPage(page_texts[i])
    /\ translated_page_data' = Append(translated_page_data, Record(<<>>, <<>>))
    /\ page_outcome' = Append(page_outcome, Outcome("blank"))
    /\ i' = i + 1
    /\ UNCHANGED <<pc, status, cfg, api_url, api_model, prompt_template,
                   pdf_path, source_language, target_language, extracted,
                   page_texts, requests, inflight, calls, doc_invoked,
                   requests_at_doc, fs, document>>

\* lines 336 and 200-232: the call of translate_text_via_api up to the post
SendPage ==
    /\ pc = "loop"
    /\ ~LoopFinished(i, page_texts)
    /\ ~IsBlankPage(page_texts[i])
    /\ LET r == PrepareRequest(page_texts[i], api_model, target_language,
                               source_language, prompt_template)
       IN  CASE r.kind = "post" ->
                  /\ requests' = Append(requests, [page |-> i, payload |-> r.value])
                  /\ inflight' = inflight \cup {i}
                  /\ calls' = [calls EXCEPT ![i] = @ + 1]
                  /\ pc' = "await"
                  /\ UNCHANGED <<status, i, translated_page_data, page_outcome>>
             [] r.kind = "return" ->
                  /\ translated_page_data' =
                        Append(translated_page_data, Record(page_texts[i], r.value))
                  /\ page_outcome' =
                        Append(page_outcome,
                               IF r.value = <<>> THEN Outcome("blank")
                               ELSE Outcome("KeyError"))
                  /\ i' = i + 1
                  /\ UNCHANGED <<pc, status, requests, inflight, calls>>
             [] OTHER ->
                  /\ pc' = "done"
                  /\ status' = "exception"
                  /\ UNCHANGED <<i, translated_page_data, page_outcome,
                                 requests, inflight, calls>>
    /\ UNCHANGED <<cfg, api_url, api_model, prompt_template, pdf_path,
                   source_language, target_language, extracted, page_texts,
                   doc_invoked, requests_at_doc, fs, document>>

\* ReceiveResponse, had a failed call been sent once more before it is
\* recorded
ReceiveResponse_Retry ==
    /\ pc = "await"
    /\ \E resp \in Responses :
        IF resp.kind # "Content" /\ calls[i] < 2
        THEN /\ requests' = Append(requests, requests[Len(requests)])
             /\ calls' = [calls EXCEPT ![i] = @ + 1]
             /\ UNCHANGED <<translated_page_data, page_outcome, inflight, i, pc>>
        ELSE /\ translated_page_data' =
                   Append(translated_page_data,
                          Record(page_texts[i], ApiResult(resp)))
             /\ page_outcome' = Append(page_outcome, resp)
             /\ inflight' = inflight \ {i}
             /\ i' = i + 1
             /\ pc' = "loop"
             /\ UNCHANGED <<requests, calls>>
    /\ UNCHANGED <<status, cfg, api_url, api_model, prompt_template, pdf_path,
                   source_language, target_language, extracted, page_texts,
                   doc_invoked, requests_at_doc, fs, document>>

\* lines 232-263 and 338: the backend's answer becomes the page's record
ReceiveResponse ==
    /\ pc = "await"
    /\ \E resp \in Responses :
        /\ translated_page_data' =
              Append(translated_page_data, Record(page_texts[i], ApiResult(resp)))
        /\ page_outcome' = Append(page_outcome, resp)
    /\ inflight' = inflight \ {i}
    /\ i' = i + 1
    /\ pc' = "loop"
    /\ UNCHANGED <<status, cfg, api_url, api_model, prompt_template, pdf_path,
                   source_language, target_language, extracted, page_texts,
                   requests, calls, doc_invoked, requests_at_doc, fs, document>>

\* lines 340-348 and 50-144: create_translation_document and the end of main
CreateDocument ==
    /\ pc = "loop"
    /\ LoopFinished(i, page_texts)
    /\ doc_invoked' = TRUE
    /\ requests_at_doc' = Len(requests)
    /\ document' = translated_page_data
    /\ \E f \in FsOutcomes : fs' = f
    /\ pc' = "done"
    /\ status' = "finished"
    /\ UNCHANGED <<cfg, api_url, api_model, prompt_template, pdf_path,
                   source_language, target_language, extracted, page_texts, i,
                   translated_page_data, requests, inflight, page_outcome,
                   calls>>

Next ==
    \/ ReadConfig
    \/ EnterPath
    \/ EnterLanguages
    \/ ExtractText
    \/ TranslateBlankPage
    \/ SendPage
    \/ ReceiveResponse
    \/ CreateDocument

Spec == Init /\ [][Next]_vars

----------------------------------------------------------------------------
(* Properties *)

Pages == 1..Len(page_texts)

NonBlank(k) == Strip(page_texts[k]) # <<>>

\* what substituting the prompt for page k raises ("none" if nothing)
PromptExc(k) ==
    FormatPrompt(prompt_template, source_language, target_language,
                 page_texts[k]).exc

BackendFailures ==
    {"Timeout", "ConnectionError", "HTTPError", "InvalidJSON", "NoContent"}

Failures == BackendFailures \cup {"KeyError"}

\* the pages the requests were made for, in the order they were sent
RequestPages == [a \in 1..Len(requests) |-> requests[a].page]

\* the pages among 1..n that are not blank and whose prompt could be built
Submittable(n) ==
    SelectSeq([k \in 1..n |-> k],
              LAMBDA k : NonBlank(k) /\ PromptExc(k) = "none")

\* the non-blank pages among 1..n
NonBlankPages(n) == SelectSeq([k \in 1..n |-> k], LAMBDA k : NonBlank(k))

\* C1: the record list handed to the document sink has exactly one record
\* per input page, and record k holds the text of page k (the empty text for
\* a blank page), whatever happened to each page.
C1_OneRecordPerPageInOrder ==
    doc_invoked =>
        /\ Len(document) = Len(page_texts)
        /\ \A k \in Pages :
              document[k].original =
                  IF NonBlank(k) THEN page_texts[k] ELSE <<>>

C1_Witness ==
    /\ doc_invoked
    /\ Len(document) = MaxPages
    /\ \E j, k \in Pages :
          /\ page_outcome[j].kind = "blank"
          /\ page_outcome[k].kind \in BackendFailures

SubstitutionRaises ==
    \E k \in Pages : NonBlank(k) /\ PromptExc(k) \notin {"none", "KeyError"}

\* C3 as stated: once the page list has been obtained, the run ends only
\* with the output produced.
C3_OutputAlwaysProduced ==
    (pc = "done" /\ extracted) => fs = "saved"

\* C3 amended: once the page list has been obtained, the run ends without
\* the output exactly when no page has text, or a prompt substitution raises
\* an exception other than KeyError, or the output folder cannot be created,
\* or the document cannot be saved.
C3_OutputUnlessStopped ==
    (pc = "done" /\ extracted) =>
        (fs # "saved" <=>
            \/ \A k \in Pages : ~NonBlank(k)
            \/ SubstitutionRaises
            \/ fs \in {"mkdir_failed", "save_failed"})

C3_Witness ==
    /\ pc = "done"
    /\ extracted
    /\ fs = "saved"
    /\ \E k \in Pages : page_outcome[k].kind \in Failures

\* C4: translate_text_via_api never lets an exception escape into the page
\* loop of main.
C4_NoExceptionEscapes == status # "exception"

\* C5 as stated (with a retry budget of at least one): a failed backend call
\* is not recorded as the page's outcome before the call has been repeated.
C5_FailedCallIsRetried ==
    \A k \in 1..Len(page_outcome) :
        page_outcome[k].kind \in BackendFailures => calls[k] > 1

\* C5 amended: there is no retry: the backend is invoked exactly once for a
\* page it is invoked for, and the result of that one call, failed or not,
\* is the page's outcome.
C5_ExactlyOneCall ==
    /\ \A k \in Pages :
          /\ calls[k] <= 1
          /\ calls[k] = Cardinality({a \in 1..Len(requests) : requests[a].page = k})
    /\ \A k \in 1..Len(page_outcome) :
          page_outcome[k].kind \in BackendFailures \cup {"Content"}
              <=> calls[k] = 1

C5_Witness ==
    \E j, k \in 1..Len(page_outcome) :
        /\ page_outcome[j].kind = "Timeout"
        /\ calls[j] = 1
        /\ page_outcome[k].kind = "Content"
        /\ calls[k] = 1

\* C6 as stated: when the loop is over every input page, blank ones
\* included, has been submitted exactly once, in page order.
C6_EveryPageSubmitted ==
    doc_invoked => RequestPages = [k \in Pages |-> k]

\* C6 amended: every request is made for one page, pages are submitted in
\* ascending order and at most once, a blank page is never submitted, and
\* when the loop is over every non-blank page whose prompt could be built
\* has been submitted.
C6_NonBlankPagesSubmittedOnce ==
    /\ \A a \in 1..Len(requests) :
          /\ requests[a].page \in Pages
          /\ NonBlank(requests[a].page)
    /\ \A a, b \in 1..Len(requests) :
          a < b => requests[a].page < requests[b].page
    /\ doc_invoked =>
          \A k \in Pages :
              (NonBlank(k) /\ PromptExc(k) = "none")
                  => \E a \in 1..Len(requests) : requests[a].page = k

C6_Witness ==
    /\ doc_invoked
    /\ Len(requests) = 1
    /\ \E k \in Pages : ~NonBlank(k)
    /\ \E k \in Pages : NonBlank(k) /\ Head(page_texts[k]) = " "

\* C7 as stated: every request carries a context: the first one a sentinel,
\* every later one the text of the page submitted before it.
C7_RequestCarriesContext ==
    \A a \in 1..Len(requests) :
        \E n \in 1..Len(requests[a].payload.prompt) :
            LET part == requests[a].payload.prompt[n]
            IN  /\ part.field = "context"
                /\ a > 1 => part.value = page_texts[requests[a - 1].page]

\* C7 amended: the prompt of a request is the template with only the source
\* language, the target language and the text of the request's own page
\* substituted; no request carries a context.
C7_NoContextInRequest ==
    \A a \in 1..Len(requests) :
        LET prompt == requests[a].payload.prompt
            text == page_texts[requests[a].page]
        IN  /\ Len(prompt) = Len(prompt_template)
            /\ \A n \in 1..Len(prompt) :
                  /\ prompt[n].field = prompt_template[n]
                  /\ prompt[n].field # "context"
                  /\ prompt[n].field = "source_language"
                        => prompt[n].value = source_language
                  /\ prompt[n].field = "target_language"
                        => prompt[n].value = target_language
                  /\ prompt[n].field = "text_to_translate"
                        => prompt[n].value = text

C7_Witness ==
    /\ Len(requests) = 2
    /\ page_texts[requests[1].page] # page_texts[requests[2].page]
    /\ \E n \in 1..Len(requests[2].payload.prompt) :
          requests[2].payload.prompt[n].field = "source_language"

\* C8: document generation starts only when every page has an outcome and
\* no request is in flight, and no request is sent after it has started.
C8_DocumentAfterAllPages ==
    doc_invoked =>
        /\ Len(page_outcome) = Len(page_texts)
        /\ inflight = {}
        /\ Len(requests) = requests_at_doc

C8_Witness ==
    /\ doc_invoked
    /\ pc = "done"
    /\ requests_at_doc = MaxPages

\* C9 as stated: when the loop is over the requests are exactly the
\* non-blank pages, one request each, in page order.
C9_RequestsAreNonBlankPages ==
    doc_invoked => RequestPages = NonBlankPages(Len(page_texts))

\* the pages the loop has gone through or is waiting for
Reached == IF pc = "await" THEN i ELSE i - 1

\* C9 amended: the requests are exactly the non-blank pages reached so far
\* whose prompt could be built, in page order, with at most one in flight; a
\* blank page yields the record with two empty texts.
C9_RequestsAreSubmittablePages ==
    /\ RequestPages = Submittable(Reached)
    /\ Cardinality(inflight) <= 1
    /\ \A k \in 1..Len(translated_page_data) :
          ~NonBlank(k) => translated_page_data[k] = Record(<<>>, <<>>)

C9_Witness ==
    /\ pc = "await"
    /\ Len(requests) = 1
    /\ inflight = {i}
    /\ i > 1
    /\ page_texts[1] = <<" ">>
    /\ translated_page_data[1] = Record(<<>>, <<>>)

\* C10: a backend request is sent or the document sink is called only if
\* the configuration gives a backend URL and a model, the entered path ends
\* in .pdf (in any letter case) and exists, extraction returned a page list
\* and some page has text; a run stopped by one of these guards has sent no
\* request and written no document.
C10_GuardsBeforeRequests ==
    /\ (requests # <<>> \/ doc_invoked \/ fs # "untouched") =>
          /\ cfg.exists /\ cfg.readable /\ cfg.hasAPI
          /\ cfg.url \notin {"None", ""}
          /\ cfg.model \notin {"None", ""}
          /\ pdf_path.ext \in {"pdf", "PDF"}
          /\ pdf_path.exists
          /\ extracted
          /\ \E k \in Pages : NonBlank(k)
    /\ status \in {"no_config", "not_pdf", "not_found", "extract_failed",
                   "no_text"}
          => requests = <<>> /\ ~doc_invoked /\ fs = "untouched"

C10_Witness ==
    /\ requests # <<>>
    /\ doc_invoked
    /\ pdf_path.ext = "PDF"
    /\ cfg.template = <<>>

====
